---- MODULE Spec2Model ----
(***************************************************************************)
(* octoprint-tui: two periodic fetchers (job, printer state) feed a        *)
(* bounded mpsc channel; one consumer task folds every event into UiState  *)
(* and redraws the dashboard; the main thread blocks on the key stream and *)
(* shuts the runtime down.                                                 *)
(*                                                                         *)
(* Representation.  Option<T>: None is <<>>, Some(x) is <<x>>.  An f64 is  *)
(* a fixed-point integer counting 1/Scale units (thousandths), so 42.5 is  *)
(* 42500 and a duration of 120 s is 120000.                                *)
(***************************************************************************)
EXTENDS Integers, Sequences, FiniteSets, TLC

(* ------------------------------ bounds -------------------------------- *)

\* Timer ticks the two fetchers may take together in one run.
MaxTicks == 3

\* mpsc::channel(1024), scaled down so that a full channel is reached.
ChannelBuffer == 1

(* --------------------------- Option / f64 ----------------------------- *)

Scale == 1000

None == <<>>

Some(x) == <<x>>

IsSome(o) == o # None

\* Option::unwrap_or
UnwrapOr(o, d) == IF IsSome(o) THEN o[1] ELSE d

\* Mutant of OptOr: the operands are taken in the other order.
OptOrSecond(a, b) == IF IsSome(b) THEN b ELSE a

\* Option::or
OptOr(a, b) == IF IsSome(a) THEN a ELSE b

(* ------------------------- octoprint responses ------------------------ *)

\* JobResponse { job: Job { file: FileAbridged { name }, estimatedPrintTime,
\* lastPrintTime }, progress: Progress { completion, printTime, printTimeLeft } }
JobResponse(name, estimated, last, completion, print_time, print_time_left) ==
    [job |-> [file |-> [name |-> name],
              estimated_print_time |-> estimated,
              last_print_time |-> last],
     progress |-> [completion |-> completion,
                   print_time |-> print_time,
                   print_time_left |-> print_time_left]]

\* TemperatureData { actual, target }
TemperatureData(actual, target) == [actual |-> actual, target |-> target]

\* StateResponse { temperature: Option<TemperatureState { tool0, bed }>,
\* state: Option<PrinterState { text }> }
StateResponse(temperature, state) == [temperature |-> temperature, state |-> state]

\* The job documents the server answers with in this model: one with every
\* optional field absent, one with a file being printed.
JobResponses ==
    { JobResponse(None, None, None, None, None, None),
      JobResponse(Some("part.gcode"), Some(7200 * Scale), None,
                  Some(42500), Some(120 * Scale), Some(300 * Scale)) }

\* The printer documents the server answers with in this model: one with every
\* optional field absent, one with a status text and both temperature readings.
StateResponses ==
    { StateResponse(None, None),
      StateResponse(Some([tool0 |-> Some(TemperatureData(210500, 215 * Scale)),
                          bed |-> Some(TemperatureData(59875, 60 * Scale))]),
                    Some([text |-> "Printing"])) }

\* The two fetchers, named by the UiEvent variant each one sends.
Kinds == {"JobUpdate", "StateUpdate"}

\* load_job / load_state: the documents a successful request can yield.
Responses(k) == IF k = "JobUpdate" THEN JobResponses ELSE StateResponses

\* OctoprintError
OctoprintErrors == {"Network", "Parse"}

\* UiEvent::JobUpdate(job) / UiEvent::StateUpdate(state)
UiEvent(k, response) == [kind |-> k, response |-> response]

(* ------------------------------- ui.rs -------------------------------- *)

\* Ui::new: the initial UiState (progress 0.0, every Option None).
EmptyState ==
    [progress |-> 0, filename |-> None, status |-> None, print_time |-> None,
     estimated_time |-> None, remaining_time |-> None, hotend_temp |-> None,
     hotend_target |-> None, bed_temp |-> None, bed_target |-> None]

\* state.temperature.clone().and_then(|t| t.tool0) and the same for bed
Tool0(response) ==
    IF IsSome(response.temperature) THEN response.temperature[1].tool0 ELSE None

Bed(response) ==
    IF IsSome(response.temperature) THEN response.temperature[1].bed ELSE None

\* Mutant of MergeJob: the arm rebuilds the UiState from the job alone, so the
\* fields of the other kind fall back to empty.
MergeJobReset(state, job) ==
    [EmptyState EXCEPT !.progress = UnwrapOr(job.progress.completion, 0),
                       !.filename = job.job.file.name,
                       !.print_time = job.progress.print_time,
                       !.estimated_time =
                           OptOr(job.job.last_print_time, job.job.estimated_print_time),
                       !.remaining_time = job.progress.print_time_left]

\* Ui::draw, the JobUpdate arm of match event
MergeJob(state, job) ==
    [state EXCEPT !.progress = UnwrapOr(job.progress.completion, 0),
                  !.filename = job.job.file.name,
                  !.print_time = job.progress.print_time,
                  !.estimated_time =
                      OptOr(job.job.last_print_time, job.job.estimated_print_time),
                  !.remaining_time = job.progress.print_time_left]

\* Mutant of MergeState: the arm also resets the progress.
MergeStateReset(state, response) ==
    [state EXCEPT !.progress = 0,
                  !.status = IF IsSome(response.state)
                                THEN Some(response.state[1].text) ELSE None,
                  !.hotend_temp = IF IsSome(Tool0(response))
                                     THEN Some(Tool0(response)[1].actual) ELSE None,
                  !.hotend_target = IF IsSome(Tool0(response))
                                       THEN Some(Tool0(response)[1].target) ELSE None,
                  !.bed_temp = IF IsSome(Bed(response))
                                  THEN Some(Bed(response)[1].actual) ELSE None,
                  !.bed_target = IF IsSome(Bed(response))
                                    THEN Some(Bed(response)[1].target) ELSE None]

\* Ui::draw, the StateUpdate arm of match event
MergeState(state, response) ==
    [state EXCEPT !.status = IF IsSome(response.state)
                                THEN Some(response.state[1].text) ELSE None,
                  !.hotend_temp = IF IsSome(Tool0(response))
                                     THEN Some(Tool0(response)[1].actual) ELSE None,
                  !.hotend_target = IF IsSome(Tool0(response))
                                       THEN Some(Tool0(response)[1].target) ELSE None,
                  !.bed_temp = IF IsSome(Bed(response))
                                  THEN Some(Bed(response)[1].actual) ELSE None,
                  !.bed_target = IF IsSome(Bed(response))
                                    THEN Some(Bed(response)[1].target) ELSE None]

\* Ui::draw, match event
Merge(state, event) ==
    IF event.kind = "JobUpdate" THEN MergeJob(state, event.response)
    ELSE MergeState(state, event.response)

\* 10^n
RECURSIVE Pow10(_)
Pow10(n) == IF n = 0 THEN 1 ELSE 10 * Pow10(n - 1)

\* The decimal digits of n, left-padded with pad to at least width characters
\* ({:02} pads with "0", {:2} with " ").
RECURSIVE PadLeft(_, _, _)
PadLeft(str, width, pad) ==
    IF Len(str) >= width THEN str ELSE PadLeft(pad \o str, width, pad)

\* An f64 x >= 0 rounded to n decimals, counted in units of 10^-n; a tie goes
\* to the even neighbour.
RoundTo(x, n) ==
    LET unit == Scale \div Pow10(n)
        q == x \div unit
        r == x % unit
    IN IF 2 * r > unit THEN q + 1
       ELSE IF 2 * r < unit THEN q
       ELSE IF q % 2 = 0 THEN q ELSE q + 1

\* format!("{:.N}", x) for an f64 x >= 0, N in 0..2
FmtFixed(x, n) ==
    LET v == RoundTo(x, n)
    IN IF n = 0 THEN ToString(v)
       ELSE ToString(v \div Pow10(n)) \o "."
                \o PadLeft(ToString(v % Pow10(n)), n, "0")

\* seconds_to_time: (hours as u64, minutes as u64, seconds as f64)
seconds_to_time(seconds) ==
    LET hours == seconds \div (60 * 60 * Scale)
        rest == seconds % (60 * 60 * Scale)
        minutes == rest \div (60 * Scale)
    IN <<hours, minutes, rest % (60 * Scale)>>

\* format!("{:.0}:{:02.0}:{:02.0}", hours, minutes, seconds): the precision is
\* ignored for the two integers and rounds the f64 seconds.
FmtPrintTime(s) ==
    LET t == seconds_to_time(s)
    IN ToString(t[1]) \o ":" \o PadLeft(ToString(t[2]), 2, "0")
          \o ":" \o PadLeft(FmtFixed(t[3], 0), 2, "0")

\* format!("{:.0}:{:2.0}:{:2.0}", hours, minutes, seconds): width 2 without
\* the 0 flag pads with spaces.
FmtOtherTime(s) ==
    LET t == seconds_to_time(s)
    IN ToString(t[1]) \o ":" \o PadLeft(ToString(t[2]), 2, " ")
          \o ":" \o PadLeft(FmtFixed(t[3], 0), 2, " ")

\* format!("{}/{}°C", temp {:.2} or "--", target {:.0} or "--")
FmtTemperature(temp, target) ==
    (IF IsSome(temp) THEN FmtFixed(temp[1], 2) ELSE "--") \o "/"
        \o (IF IsSome(target) THEN FmtFixed(target[1], 0) ELSE "--") \o "°C"

\* Mutant of AsU16: the cast rounds to the nearest integer instead of truncating.
AsU16Rounded(x) ==
    IF (x + Scale \div 2) \div Scale > 65535 THEN 65535 ELSE (x + Scale \div 2) \div Scale

\* state.progress as u16
AsU16(x) == IF x \div Scale > 65535 THEN 65535 ELSE x \div Scale

\* The closure given to terminal.draw: the frame drawn from a UiState.
Render(state) ==
    [status |-> UnwrapOr(state.status, "No Status"),
     title |-> UnwrapOr(state.filename, "No File"),
     hotend |-> FmtTemperature(state.hotend_temp, state.hotend_target),
     bed |-> FmtTemperature(state.bed_temp, state.bed_target),
     print_time |-> IF IsSome(state.print_time)
                       THEN FmtPrintTime(state.print_time[1]) ELSE "--:--:--",
     estimated_time |-> IF IsSome(state.estimated_time)
                           THEN FmtOtherTime(state.estimated_time[1]) ELSE "--:--:--",
     remaining_time |-> IF IsSome(state.remaining_time)
                           THEN FmtOtherTime(state.remaining_time[1]) ELSE "--:--:--",
     gauge |-> IF state.progress > 0
                  THEN Some([label |-> FmtFixed(state.progress, 2) \o "%",
                             percent |-> AsU16(state.progress)])
                  ELSE None]

(* ------------------------------ main.rs ------------------------------- *)

VARIABLES
    pc,        \* per fetcher: where its Interval/and_then/fold future stands
    log,       \* per fetcher: the error it wrote with eprintln!, or "none"
    ticks,     \* timer ticks taken so far by both fetchers
    chan,      \* the messages queued in the mpsc channel, oldest first
    open,      \* the channel still has its Receiver
    parked,    \* the channel's queue of parked senders, oldest first
    sent,      \* history: every event a tx.send has put into the channel
    applied,   \* history: every event Ui::draw has merged
    state,     \* Ui.state, the UiState
    uiPc,      \* the rx.for_each task: "running", "panicked" or "cancelled"
    screen,    \* the last frame on the terminal; None after terminal.clear()
    frames,    \* the number of frames terminal.draw has put on the terminal
    terminal,  \* "raw" while the Ui owns the terminal, "restored" once dropped
    mainPc,    \* the main thread: "keys", "shutdown" or "exited"
    lastKey    \* the last outcome of the key stream, "none" before the first

vars == <<pc, log, ticks, chan, open, parked, sent, applied, state, uiPc,
          screen, frames, terminal, mainPc, lastKey>>

\* main, lines 36-75: Ui::new has cleared the terminal, the three tasks are
\* spawned, both intervals wait for their first tick, the main thread reads keys.
Init ==
    /\ pc = [k \in Kinds |-> "timer"]
    /\ log = [k \in Kinds |-> "none"]
    /\ ticks = 0
    /\ chan = <<>>
    /\ open = TRUE
    /\ parked = <<>>
    /\ sent = <<>>
    /\ applied = <<>>
    /\ state = EmptyState
    /\ uiPc = "running"
    /\ screen = None
    /\ frames = 0
    /\ terminal = "raw"
    /\ mainPc = "keys"
    /\ lastKey = "none"

\* Mutant of ParkSelf: a sender never parks (an unbounded channel).
NeverPark(num_messages) == FALSE

\* Sender::do_send behind tx.send: the sender parks itself when its message
\* takes the count of queued messages over the buffer.
ParkSelf(num_messages) == num_messages > ChannelBuffer

\* Mutant of QueuePush: an event replaces a queued event of its kind at the
\* back of the queue (same-kind events coalesce).
QueueCoalesce(queue, event) ==
    IF queue # <<>> /\ queue[Len(queue)].kind = event.kind
       THEN [queue EXCEPT ![Len(queue)] = event]
       ELSE Append(queue, event)

\* Sender::do_send behind tx.send: the message goes to the back of the queue.
QueuePush(queue, event) == Append(queue, event)

\* Receiver::poll behind rx.for_each: the message at the front is taken.
NextMessage(queue) == Head(queue)

\* Receiver::poll behind rx.for_each: the queue without the message taken.
QueuePop(queue) == Tail(queue)

\* Receiver::poll behind rx.for_each: taking a message unparks one sender.
UnparkOne(queue) == IF queue = <<>> THEN <<>> ELSE Tail(queue)

\* Mutant of Tick: one interval drives both fetchers, so a fetcher takes its
\* tick only while the other one is waiting for the timer too.
TickAfterOther(k) ==
    /\ pc[k] = "timer"
    /\ \A j \in Kinds \ {k} : pc[j] = "timer"
    /\ ticks < MaxTicks
    /\ pc' = [pc EXCEPT ![k] = "fetch"]
    /\ ticks' = ticks + 1
    /\ UNCHANGED <<log, chan, open, parked, sent, applied, state, uiPc,
                   screen, frames, terminal, mainPc, lastKey>>

\* Interval yields a tick; and_then starts load_job / load_state.
Tick(k) ==
    /\ pc[k] = "timer"
    /\ ticks < MaxTicks
    /\ pc' = [pc EXCEPT ![k] = "fetch"]
    /\ ticks' = ticks + 1
    /\ UNCHANGED <<log, chan, open, parked, sent, applied, state, uiPc,
                   screen, frames, terminal, mainPc, lastKey>>

\* Mutant of FoldError: the error of one fetcher ends both folds.
FoldErrorAll(k, e) ==
    /\ log' = [log EXCEPT ![k] = e]
    /\ pc' = [j \in Kinds |-> "done"]

\* The stream's error reaches fold after map_err has logged it: fold resolves
\* with the error and the spawned future is over.
FoldError(k, e) ==
    /\ log' = [log EXCEPT ![k] = e]
    /\ pc' = [pc EXCEPT ![k] = "done"]

\* Interval yields a tokio_timer::Error.
TimerError(k) ==
    /\ pc[k] = "timer"
    /\ FoldError(k, "Timer")
    /\ UNCHANGED <<ticks, chan, open, parked, sent, applied, state, uiPc,
                   screen, frames, terminal, mainPc, lastKey>>

\* Mutant of FetchError: the failed request is logged and issued again within
\* the same tick.
FetchErrorRetry(k, e) ==
    /\ pc[k] = "fetch"
    /\ log' = [log EXCEPT ![k] = e]
    /\ UNCHANGED <<pc, ticks, chan, open, parked, sent, applied, state, uiPc,
                   screen, frames, terminal, mainPc, lastKey>>

\* load_job / load_state fails with an OctoprintError.
FetchError(k, e) ==
    /\ pc[k] = "fetch"
    /\ FoldError(k, e)
    /\ UNCHANGED <<ticks, chan, open, parked, sent, applied, state, uiPc,
                   screen, frames, terminal, mainPc, lastKey>>

\* load_job / load_state succeeds and fold runs tx.send(UiEvent::..(response)):
\* on a closed channel the send fails, is logged and ends the fold; otherwise
\* the event is queued and the Send future completes at once, or, when the
\* sender parked itself, once the receiver has unparked it.
FetchOk(k, response) ==
    /\ pc[k] = "fetch"
    /\ IF open
          THEN /\ chan' = QueuePush(chan, UiEvent(k, response))
               /\ sent' = Append(sent, UiEvent(k, response))
               /\ IF ParkSelf(Len(chan) + 1)
                     THEN /\ parked' = Append(parked, k)
                          /\ pc' = [pc EXCEPT ![k] = "flush"]
                     ELSE /\ parked' = parked
                          /\ pc' = [pc EXCEPT ![k] = "timer"]
               /\ log' = log
          ELSE /\ FoldError(k, "Send")
               /\ UNCHANGED <<chan, sent, parked>>
    /\ UNCHANGED <<ticks, open, applied, state, uiPc, screen, frames,
                   terminal, mainPc, lastKey>>

\* The Send future of a sender that is no longer parked completes; fold goes
\* back to polling the interval.
SendComplete(k) ==
    /\ pc[k] = "flush"
    /\ \A i \in 1..Len(parked) : parked[i] # k
    /\ pc' = [pc EXCEPT ![k] = "timer"]
    /\ UNCHANGED <<log, ticks, chan, open, parked, sent, applied, state, uiPc,
                   screen, frames, terminal, mainPc, lastKey>>

\* rx.for_each(|event| ui.draw(event)): take the next message, merge it into
\* the UiState, draw the whole frame from the result.  When terminal.draw
\* fails, expect panics: the task ends, the Ui and the Receiver are dropped.
Draw(ok) ==
    /\ uiPc = "running"
    /\ chan # <<>>
    /\ applied' = Append(applied, NextMessage(chan))
    /\ state' = Merge(state, NextMessage(chan))
    /\ IF ok
          THEN /\ chan' = QueuePop(chan)
               /\ parked' = UnparkOne(parked)
               /\ screen' = Some(Render(state'))
               /\ frames' = frames + 1
               /\ UNCHANGED <<open, uiPc, terminal>>
          ELSE /\ uiPc' = "panicked"
               /\ open' = FALSE
               /\ chan' = <<>>
               /\ parked' = <<>>
               /\ terminal' = "restored"
               /\ UNCHANGED <<screen, frames>>
    /\ UNCHANGED <<pc, log, ticks, sent, mainPc, lastKey>>

\* The blocking key stream: Esc passes the filter and ends the wait; so do a
\* read error (logged by map_err) and the end of stdin; any other key is
\* filtered out.
Key(key) ==
    /\ mainPc = "keys"
    /\ lastKey' = key
    /\ mainPc' = IF key = "Other" THEN "keys" ELSE "shutdown"
    /\ UNCHANGED <<pc, log, ticks, chan, open, parked, sent, applied, state,
                   uiPc, screen, frames, terminal>>

\* The outcomes of one read of io::stdin().keys().
KeyOutcomes == {"Esc", "Other", "Error", "Eof"}

\* Mutant of ShutdownNow: main returns without the runtime dropping its tasks.
ShutdownWithoutCancel ==
    /\ mainPc = "shutdown"
    /\ mainPc' = "exited"
    /\ UNCHANGED <<pc, log, ticks, chan, open, parked, sent, applied, state,
                   uiPc, screen, frames, terminal, lastKey>>

\* runtime.shutdown_now().wait(): every task still alive is dropped, and with
\* the consumer its Ui (terminal restored) and the Receiver; main returns.
ShutdownNow ==
    /\ mainPc = "shutdown"
    /\ mainPc' = "exited"
    /\ pc' = [k \in Kinds |-> IF pc[k] = "done" THEN "done" ELSE "cancelled"]
    /\ uiPc' = IF uiPc = "running" THEN "cancelled" ELSE uiPc
    /\ open' = FALSE
    /\ chan' = <<>>
    /\ parked' = <<>>
    /\ terminal' = "restored"
    /\ UNCHANGED <<log, ticks, sent, applied, state, screen, frames, lastKey>>

Next ==
    \/ \E k \in Kinds : Tick(k)
    \/ \E k \in Kinds : TimerError(k)
    \/ \E k \in Kinds : \E e \in OctoprintErrors : FetchError(k, e)
    \/ \E k \in Kinds : \E response \in Responses(k) : FetchOk(k, response)
    \/ \E k \in Kinds : SendComplete(k)
    \/ \E ok \in BOOLEAN : Draw(ok)
    \/ \E key \in KeyOutcomes : Key(key)
    \/ ShutdownNow

Spec == Init /\ [][Next]_vars

\* The scheduling the runtime and the main thread guarantee: a queued message is
\* eventually handed to the consumer, a woken Send future is eventually polled,
\* and main goes on to shutdown_now once the wait on the key stream returns.
\* Timer ticks, server answers and keys are the environment's: no fairness.
LiveSpec ==
    /\ Spec
    /\ WF_vars(\E ok \in BOOLEAN : Draw(ok))
    /\ \A k \in Kinds : WF_vars(SendComplete(k))
    /\ WF_vars(ShutdownNow)

(* ------------------- the dashboard over wider job data ---------------- *)

\* Job documents that cover the cases of the formatting and merge code: each
\* optional field absent and present, durations with a fraction of a second,
\* both print-time estimates alone and together, completion at 0, just above 0,
\* in between and at 100.
DataJobResponses ==
    { JobResponse(None, None, None, None, None, None),
      JobResponse(Some("part.gcode"), Some(7200 * Scale), None,
                  Some(42500), Some(120 * Scale), Some(300 * Scale)),
      JobResponse(Some("cube.gcode"), Some(900 * Scale), Some(3661400),
                  Some(0), Some(59999), Some(3661400)),
      JobResponse(None, None, Some(1800 * Scale),
                  Some(10), Some(3661400), Some(59999)),
      JobResponse(Some("done.gcode"), Some(7200 * Scale), Some(7100 * Scale),
                  Some(100 * Scale), Some(3599999), Some(0)) }

\* load_job / load_state over the wider job documents.
DataResponses(k) == IF k = "JobUpdate" THEN DataJobResponses ELSE StateResponses

\* The fetchers and the consumer with every fetch answered successfully and no
\* key read: the runs in which the dashboard shows the server's data.
DataNext ==
    \/ \E k \in Kinds : Tick(k)
    \/ \E k \in Kinds : \E response \in DataResponses(k) : FetchOk(k, response)
    \/ \E k \in Kinds : SendComplete(k)
    \/ \E ok \in BOOLEAN : Draw(ok)

DataSpec == Init /\ [][DataNext]_vars

(* ------------------- octoprint.rs: deserialization -------------------- *)

\* A key of a JSON object: absent, or present with a value.  An object is a
\* record of its documented keys, each absent or present.
Absent == <<>>

Present(v) == <<v>>

IsPresent(f) == f # Absent

\* #[derive(Deserialize)] on a field of type Option<T> with a scalar T: a
\* missing key becomes None.
OptionalField(f) == IF IsPresent(f) THEN Some(f[1]) ELSE None

\* serde_json::from_slice::<JobResponse>: job, progress and job.file are not
\* Option, so a document without one of them is an error ("missing field");
\* the result is Some(response), or None for Err(OctoprintError::Parse).
ParseJob(body) ==
    IF \/ ~IsPresent(body.job)
       \/ ~IsPresent(body.progress)
       \/ ~IsPresent(body.job[1].file)
       THEN None
       ELSE Some(JobResponse(OptionalField(body.job[1].file[1].name),
                             OptionalField(body.job[1].estimatedPrintTime),
                             OptionalField(body.job[1].lastPrintTime),
                             OptionalField(body.progress[1].completion),
                             OptionalField(body.progress[1].printTime),
                             OptionalField(body.progress[1].printTimeLeft)))

\* Deserialize for Option<TemperatureData>: a missing key is None; a present
\* object needs actual and target, which are plain f64.  A sequence of results:
\* <<>> for an error, <<option>> otherwise.
ParseTemperatureData(f) ==
    IF ~IsPresent(f) THEN <<None>>
    ELSE IF IsPresent(f[1].actual) /\ IsPresent(f[1].target)
            THEN <<Some(TemperatureData(f[1].actual[1], f[1].target[1]))>>
            ELSE <<>>

\* serde_json::from_slice::<StateResponse>: temperature and state are Option;
\* a present state object needs text and flags, a present tool0 or bed needs
\* actual and target; Some(response), or None for Err(OctoprintError::Parse).
ParseState(body) ==
    LET tool0 == IF IsPresent(body.temperature)
                    THEN ParseTemperatureData(body.temperature[1].tool0) ELSE <<None>>
        bed == IF IsPresent(body.temperature)
                  THEN ParseTemperatureData(body.temperature[1].bed) ELSE <<None>>
    IN IF \/ tool0 = <<>>
          \/ bed = <<>>
          \/ /\ IsPresent(body.state)
             /\ ~(IsPresent(body.state[1].text) /\ IsPresent(body.state[1].flags))
          THEN None
          ELSE Some(StateResponse(
                   IF IsPresent(body.temperature)
                      THEN Some([tool0 |-> tool0[1], bed |-> bed[1]]) ELSE None,
                   IF IsPresent(body.state)
                      THEN Some([text |-> body.state[1].text[1]]) ELSE None))

\* send_request: serde_json::from_slice(&body) into the endpoint's type.
from_slice(k, body) == IF k = "JobUpdate" THEN ParseJob(body) ELSE ParseState(body)

\* Well-formed documents of GET /api/job: complete; every optional value
\* missing; no progress object; no file object.
JobBodies ==
    { [job |-> Present([file |-> Present([name |-> Present("part.gcode")]),
                        estimatedPrintTime |-> Present(7200 * Scale),
                        lastPrintTime |-> Present(7100 * Scale)]),
       progress |-> Present([completion |-> Present(42500),
                             printTime |-> Present(120 * Scale),
                             printTimeLeft |-> Present(300 * Scale)])],
      [job |-> Present([file |-> Present([name |-> Absent]),
                        estimatedPrintTime |-> Absent,
                        lastPrintTime |-> Absent]),
       progress |-> Present([completion |-> Absent,
                             printTime |-> Absent,
                             printTimeLeft |-> Absent])],
      [job |-> Present([file |-> Present([name |-> Present("part.gcode")]),
                        estimatedPrintTime |-> Present(7200 * Scale),
                        lastPrintTime |-> Absent]),
       progress |-> Absent],
      [job |-> Present([file |-> Absent,
                        estimatedPrintTime |-> Present(7200 * Scale),
                        lastPrintTime |-> Absent]),
       progress |-> Present([completion |-> Present(42500),
                             printTime |-> Absent,
                             printTimeLeft |-> Absent])] }

\* Well-formed documents of GET /api/printer: complete; empty; a state object
\* without its text; a tool0 reading without its target.
StateBodies ==
    { [temperature |-> Present([tool0 |-> Present([actual |-> Present(210500),
                                                   target |-> Present(215 * Scale)]),
                                bed |-> Present([actual |-> Present(59875),
                                                 target |-> Present(60 * Scale)])]),
       state |-> Present([text |-> Present("Printing"), flags |-> Present("flags")])],
      [temperature |-> Absent, state |-> Absent],
      [temperature |-> Absent,
       state |-> Present([text |-> Absent, flags |-> Present("flags")])],
      [temperature |-> Present([tool0 |-> Present([actual |-> Present(210500),
                                                   target |-> Absent]),
                                bed |-> Absent]),
       state |-> Absent] }

\* The documents the server answers a request of fetcher k with.
Bodies(k) == IF k = "JobUpdate" THEN JobBodies ELSE StateBodies

\* The server answers the request in flight with a well-formed document:
\* load_job / load_state resolves to what from_slice makes of it.
Respond(k, body) ==
    IF IsSome(from_slice(k, body))
       THEN FetchOk(k, from_slice(k, body)[1])
       ELSE FetchError(k, "Parse")

\* The fetchers and the consumer with every request answered by a well-formed
\* document in which documented fields may be missing, and no key read.
ParseNext ==
    \/ \E k \in Kinds : Tick(k)
    \/ \E k \in Kinds : \E body \in Bodies(k) : Respond(k, body)
    \/ \E k \in Kinds : SendComplete(k)
    \/ \E ok \in BOOLEAN : Draw(ok)

ParseSpec == Init /\ [][ParseNext]_vars

(* ------------------------- helpers of the claims ---------------------- *)

IsPrefix(s, t) == Len(s) <= Len(t) /\ \A i \in 1..Len(s) : s[i] = t[i]

InParked(k) == \E i \in 1..Len(parked) : parked[i] = k

\* The positions of the events of kind k in seq.
Positions(seq, k) == {i \in 1..Len(seq) : seq[i].kind = k}

Max(S) == CHOOSE x \in S : \A y \in S : y <= x

\* The fields of UiState written from a JobResponse, and from a StateResponse.
JobFields(st) ==
    <<st.progress, st.filename, st.print_time, st.estimated_time, st.remaining_time>>

StateFields(st) ==
    <<st.status, st.hotend_temp, st.hotend_target, st.bed_temp, st.bed_target>>

\* The fields of kind k as the last event of that kind in seq sets them, and
\* the empty ones when seq has no such event.
LastWrite(seq, k) ==
    LET st == IF Positions(seq, k) = {} THEN EmptyState
              ELSE Merge(EmptyState, seq[Max(Positions(seq, k))])
    IN IF k = "JobUpdate" THEN JobFields(st) ELSE StateFields(st)

(* ------------------------------- claims ------------------------------- *)

\* C1: a failed fetch is never fatal to its fetch loop: while shutdown has not
\* been triggered, a fetcher whose load_job / load_state failed with a network
\* or parse error is still running (it goes on to its next tick).
C1_FailedFetchNotFatal ==
    \A k \in Kinds :
        (log[k] \in OctoprintErrors /\ mainPc = "keys") => pc[k] # "done"

\* C2: a failed fetch is contained in its fetcher: the step in which a fetch
\* fails enqueues nothing, changes no UiState field, draws no frame, and leaves
\* the other fetcher, the consumer, the channel and the main thread as they were.
C2_FailedFetchContained ==
    [][\A k \in Kinds :
          (log[k] = "none" /\ log'[k] \in OctoprintErrors) =>
              /\ UNCHANGED <<chan, open, parked, sent, applied, state, screen,
                             frames, uiPc, terminal, mainPc>>
              /\ \A j \in Kinds \ {k} : pc'[j] = pc[j] /\ log'[j] = log[j]]_vars

\* C2 witness: the job fetcher has had an event drawn and a fetch fail, the
\* state fetcher's event is the last one applied and drawn, and the state
\* fetcher, the consumer and the main thread are all still running.
C2_Witness ==
    /\ log["JobUpdate"] \in OctoprintErrors
    /\ Len(applied) >= 2
    /\ applied[1].kind = "JobUpdate"
    /\ applied[Len(applied)].kind = "StateUpdate"
    /\ screen = Some(Render(state))
    /\ uiPc = "running"
    /\ pc["StateUpdate"] = "timer"
    /\ mainPc = "keys"

\* C3: after any sequence of events applied by Ui::draw the UiState is the
\* field-wise last-write-wins merge: its job fields are those of the last
\* JobUpdate applied (empty if none), its state fields those of the last
\* StateUpdate applied (empty if none), however the two kinds interleave.
C3_LastWriteWins ==
    /\ JobFields(state) = LastWrite(applied, "JobUpdate")
    /\ StateFields(state) = LastWrite(applied, "StateUpdate")

\* C3 witness: three events applied, a StateUpdate between two different
\* JobUpdates, the state fields not empty.
C3_Witness ==
    /\ Len(applied) = 3
    /\ applied[1].kind = "JobUpdate"
    /\ applied[2].kind = "StateUpdate"
    /\ applied[3].kind = "JobUpdate"
    /\ applied[1] # applied[3]
    /\ IsSome(state.status)
    /\ IsSome(state.filename)

\* C4: field partition: a step of Ui::draw that applies a JobUpdate leaves
\* status, hotend_temp, hotend_target, bed_temp and bed_target as they were, and
\* one that applies a StateUpdate leaves progress, filename, print_time,
\* estimated_time and remaining_time as they were.
C4_FieldPartition ==
    [][applied' # applied =>
          IF applied'[Len(applied')].kind = "JobUpdate"
             THEN StateFields(state') = StateFields(state)
             ELSE JobFields(state') = JobFields(state)]_vars

\* C4 witness: a StateUpdate was applied last, over job fields that an earlier
\* JobUpdate had filled.
C4_Witness ==
    /\ Len(applied) >= 2
    /\ applied[Len(applied)].kind = "StateUpdate"
    /\ IsSome(state.filename)
    /\ state.progress > 0
    /\ IsSome(state.hotend_temp)

\* C5: the channel is FIFO without deduplication or coalescing: the events
\* applied are a prefix of the events enqueued, in the same order, and while the
\* channel has its receiver the events enqueued and not yet applied are exactly
\* the queue's content, each once.
C5_Fifo ==
    /\ IsPrefix(applied, sent)
    /\ open => sent = applied \o chan

\* C5 witness: two equal events of the same kind were enqueued back to back and
\* both were applied, after an event of the other kind.
C5_Witness ==
    /\ Len(applied) = 3
    /\ applied[1].kind # applied[2].kind
    /\ applied[2] = applied[3]
    /\ applied = sent

\* C6: backpressure: the queue never holds more than the buffer plus one
\* message per parked sender (so never more than the channel's capacity); a
\* parked fetcher is suspended in its send, with its event in the queue, and a
\* fetcher parks once only; and every event enqueued is eventually applied, in
\* the order enqueued, as long as the consumer runs.
C6_Backpressure ==
    /\ [](Len(chan) <= ChannelBuffer + Len(parked))
    /\ [](\A i \in 1..Len(parked) :
             /\ pc[parked[i]] = "flush"
             /\ \A j \in 1..Len(parked) : parked[i] = parked[j] => i = j)
    /\ [](IsPrefix(applied, sent))
    /\ \A n \in 1..MaxTicks :
          (Len(sent) >= n) ~> (Len(applied) >= n \/ uiPc # "running")

\* C6 witness: the channel is over its buffer with both fetchers parked, and the
\* consumer is running.
C6_Witness ==
    /\ Len(parked) = 2
    /\ Len(chan) = ChannelBuffer + 2
    /\ uiPc = "running"
    /\ mainPc = "keys"

\* C7: every event the consumer receives is followed by exactly one full
\* render: the frames drawn are as many as the events applied, and the frame on
\* the terminal is the one rendered from the current UiState.
C7_EveryEventRendered ==
    /\ frames = Len(applied)
    /\ frames > 0 => screen = Some(Render(state))

\* C8: once Esc is read the main thread goes on to cancel both fetchers and the
\* consumer; when it has exited no fetcher and no consumer is left running, the
\* channel is closed and the terminal is restored; and nothing changes after.
C8_ShutdownOnEsc ==
    /\ (lastKey = "Esc") ~> (mainPc = "exited")
    /\ [](mainPc = "exited" =>
             /\ \A k \in Kinds : pc[k] \in {"done", "cancelled"}
             /\ uiPc # "running"
             /\ ~open
             /\ terminal = "restored")
    /\ [][mainPc = "exited" => UNCHANGED vars]_vars

\* C8 witness: the process has exited after Esc, with both fetchers and the
\* consumer cancelled in mid-work.
C8_Witness ==
    /\ lastKey = "Esc"
    /\ mainPc = "exited"
    /\ \A k \in Kinds : pc[k] = "cancelled"
    /\ uiPc = "cancelled"
    /\ frames > 0
    /\ Len(sent) > Len(applied)

\* C9: the exit key is the only cancellation path: the main thread leaves the
\* key stream for shutdown only after Esc has been read.
C9_OnlyEscShutsDown == mainPc # "keys" => lastKey = "Esc"

\* C10: at startup, before any event has been received, the dashboard is on the
\* terminal, rendered from the empty UiState.
C10_StartupRendered ==
    (uiPc = "running" /\ applied = <<>>) => screen = Some(Render(EmptyState))

\* The frame on the terminal was drawn from the current UiState (the last event
\* applied was also drawn).
FrameCurrent == frames > 0 /\ frames = Len(applied)

\* The response of the last JobUpdate in seq, as an Option.
LastJob(seq) ==
    IF Positions(seq, "JobUpdate") = {} THEN None
    ELSE Some(seq[Max(Positions(seq, "JobUpdate"))].response)

\* H:MM:SS of a duration with the fraction of a second cut off: hours unpadded,
\* minutes and seconds in 0..59 and zero-padded to two digits.
Hms(s) ==
    LET whole == s \div Scale
    IN ToString(whole \div 3600) \o ":"
          \o PadLeft(ToString((whole % 3600) \div 60), 2, "0") \o ":"
          \o PadLeft(ToString(whole % 60), 2, "0")

\* C11: duration formatting truncates to whole seconds: a present print time s
\* is shown as H:MM:SS with SS = floor(s mod 60), never 60 (59.999 -> "0:00:59",
\* 3661.4 -> "1:01:01"), and an absent one as "--:--:--".
C11_DurationTruncated ==
    FrameCurrent =>
        screen[1].print_time =
            IF IsSome(state.print_time) THEN Hms(state.print_time[1]) ELSE "--:--:--"

\* C12: the three durations are formatted the same way, minutes and seconds
\* zero-padded: estimated and remaining time are shown as the print time would
\* be for the same value, and after one JobUpdate with print_time 120 and
\* print_time_left 300 the frame shows "0:02:00" and "0:05:00".
C12_SameFormat ==
    FrameCurrent =>
        /\ IsSome(state.estimated_time) =>
               screen[1].estimated_time = FmtPrintTime(state.estimated_time[1])
        /\ IsSome(state.remaining_time) =>
               screen[1].remaining_time = FmtPrintTime(state.remaining_time[1])
        /\ (/\ Len(applied) = 1
            /\ state.print_time = Some(120 * Scale)
            /\ state.remaining_time = Some(300 * Scale)) =>
               /\ screen[1].print_time = "0:02:00"
               /\ screen[1].remaining_time = "0:05:00"

\* C13: the gauge is in the frame if and only if the completion of the last
\* JobUpdate applied is present and greater than 0 (no gauge when absent, when
\* exactly 0, or with no JobUpdate yet), and then its percentage is the
\* whole-number part of the completion and lies in 0..100.
C13_Gauge ==
    FrameCurrent =>
        LET completion == IF IsSome(LastJob(applied))
                             THEN LastJob(applied)[1].progress.completion ELSE None
            gauge == screen[1].gauge
        IN /\ IsSome(gauge) <=> (IsSome(completion) /\ completion[1] > 0)
           /\ IsSome(gauge) =>
                  /\ gauge[1].percent * Scale <= completion[1]
                  /\ completion[1] < (gauge[1].percent + 1) * Scale
                  /\ gauge[1].percent \in 0..100

\* C13 witness: the frame shows the gauge at 42 for a completion of 42.5, drawn
\* after a StateUpdate that followed the JobUpdate.
C13_Witness ==
    /\ FrameCurrent
    /\ Len(applied) >= 2
    /\ applied[Len(applied)].kind = "StateUpdate"
    /\ state.progress = 42500
    /\ screen[1].gauge = Some([label |-> "42.50%", percent |-> 42])

\* C20: the estimated time of the UiState is derived from the last JobUpdate
\* applied alone: its last print time when present, otherwise its estimated
\* print time, otherwise absent (so a JobUpdate with neither clears an earlier
\* estimate); absent before the first JobUpdate.
C20_EstimatedTime ==
    state.estimated_time =
        IF ~IsSome(LastJob(applied)) THEN None
        ELSE IF IsSome(LastJob(applied)[1].job.last_print_time)
                THEN LastJob(applied)[1].job.last_print_time
                ELSE LastJob(applied)[1].job.estimated_print_time

\* C20 witness: a JobUpdate with both values (last print time taken) was
\* applied, and after it one with neither, which cleared the estimate.
C20_Witness ==
    /\ Len(applied) = 2
    /\ applied[1].kind = "JobUpdate"
    /\ IsSome(applied[1].response.job.last_print_time)
    /\ IsSome(applied[1].response.job.estimated_print_time)
    /\ applied[2].kind = "JobUpdate"
    /\ ~IsSome(applied[2].response.job.last_print_time)
    /\ ~IsSome(applied[2].response.job.estimated_print_time)
    /\ state.estimated_time = None

\* C14: deserialization tolerates absence: a well-formed response in which
\* documented fields are absent never yields a ParseError (no fetcher logs a
\* parse error when every answer is such a document).
C14_AbsenceTolerated == \A k \in Kinds : log[k] # "Parse"

\* The events whose frame was drawn: a failed draw is the consumer's last step.
Rendered == SubSeq(applied, 1, frames)

\* C15: a timer error is handled like a fetch error, log and continue: while
\* shutdown has not been triggered, a fetcher whose interval reported an error
\* is still running.
C15_TimerErrorNotFatal ==
    \A k \in Kinds : (log[k] = "Timer" /\ mainPc = "keys") => pc[k] # "done"

\* C16: once the main loop runs and until shutdown is triggered, no failure
\* stops the consumer or closes the channel, and no send of a fetcher fails on a
\* closed channel.
C16_OnlyStartupFatal ==
    mainPc = "keys" =>
        /\ uiPc = "running"
        /\ open
        /\ \A k \in Kinds : log[k] # "Send"

C18_OneEventPerFetch ==
    [][\A k \in Kinds :
          (pc[k] = "fetch" /\ (pc'[k] \in {"timer", "flush"} \/ log'[k] = "Send")) =>
              /\ Len(sent') = Len(sent) + 1
              /\ sent'[Len(sent')].kind = k
              /\ chan' = Append(chan, sent'[Len(sent')])]_vars

\* C19: each fetcher is sequential and retry-free: every tick taken has exactly
\* one outcome so far (request in flight, event enqueued, or one logged
\* failure); a fetcher waiting for its timer or for an answer has no send
\* outstanding; and a fetcher is parked with at most one event.
C19_Sequential ==
    /\ mainPc # "exited" =>
           ticks = Len(sent)
                     + Cardinality({k \in Kinds : pc[k] = "fetch"})
                     + Cardinality({k \in Kinds :
                                       log[k] \in OctoprintErrors \cup {"Send"}})
    /\ \A k \in Kinds :
           /\ pc[k] \in {"timer", "fetch"} => ~InParked(k)
           /\ Cardinality({i \in 1..Len(parked) : parked[i] = k}) <= 1

\* C19 witness: three ticks were taken: one ended in a failed fetch, one in an
\* enqueued event, and the request of the third is in flight.
C19_Witness ==
    /\ ticks = 3
    /\ Len(sent) = 1
    /\ pc["JobUpdate"] = "done"
    /\ log["JobUpdate"] \in OctoprintErrors
    /\ pc["StateUpdate"] = "fetch"
    /\ mainPc = "keys"

====
